---- MODULE Spec2Model ----
(***************************************************************************)
(* A model of apps/benchmark.py: the multi-tool LAS/LAZ benchmark harness. *)
(*                                                                         *)
(*   Spec        main(): the orchestrator, section by section              *)
(*   SpecDriver  one call of one driver (benchmark_*_read / _write)        *)
(*   SpecAgg     aggregate() and the BenchSummary throughput properties    *)
(*                                                                         *)
(* Times are Python floats.  A float is modelled as a miniature IEEE-754   *)
(* binary format with Precision significand bits and gradual underflow:    *)
(* a value is the integer number of smallest-subnormal units it holds, and *)
(* every arithmetic result is rounded to nearest, ties to even.            *)
(***************************************************************************)
EXTENDS Integers, Sequences, FiniteSets, TLC

\* ------------------------------------------------------------------ bounds

Precision == 3          \* significand bits of the modelled float format
MaxSamples == 3         \* longest sample list given to aggregate
MaxIterations == 2      \* largest --iterations
MaxWarmup == 1          \* largest --warmup
MaxThreadCounts == 2    \* longest --threads list
MainIterations == 1     \* the --iterations of the runs of main()

VARIABLES
    pc,           \* main: the section main() is about to run
    args,         \* main: the parsed command line
    host,         \* main: the module-level flags _HAS_LASPY, _HAS_LAZRS, _HAS_PDAL
    laspy_backends, \* main: what detect_laspy_backends() returned
    metadata,     \* main: the metadata dict
    all_results,  \* main: the collected BenchResults
    notices,      \* main: the messages printed so far
    dispatched,   \* main: the driver calls made so far
    native,       \* main: the run of the C++ benchmark binary, and its answer
    summaries,    \* main: aggregate's result
    exit_code,    \* main: the return value, -1 while running
    json_out,     \* main: whether --output was given, and whether the file was written
    drv_call,     \* driver: the arguments and environment of one driver call
    drv_ret,      \* driver: what that call gave its caller
    drv_fx,       \* driver: what that call did besides: files, processes, os.environ
    agg_in,       \* aggregate: its arguments, and a permutation of the samples
    agg_out       \* aggregate: its results for the two orders

vars == <<pc, args, host, laspy_backends, metadata, all_results, notices, dispatched,
          native, summaries, exit_code, json_out, drv_call, drv_ret, drv_fx,
          agg_in, agg_out>>

mainVars == <<pc, args, host, laspy_backends, metadata, all_results, notices, dispatched,
              native, summaries, exit_code, json_out>>
drvVars == <<drv_call, drv_ret, drv_fx>>
aggVars == <<agg_in, agg_out>>

\* ------------------------------------------------------- float arithmetic

RECURSIVE Pow2(_)
Pow2(k) == IF k = 0 THEN 1 ELSE 2 * Pow2(k - 1)

\* 1.0 in units of the smallest subnormal: the smallest normal number
FloatOne == Pow2(Precision - 1)

\* the exponent of the spacing of floats around magnitude q (0: spacing 1 unit)
RECURSIVE SpacingExp(_, _)
SpacingExp(q, k) == IF q < Pow2(Precision + k) THEN k ELSE SpacingExp(q, k + 1)

\* num/den (num >= 0, den > 0) rounded to the nearest float, ties to even
RoundMag(num, den) ==
    LET k == SpacingExp(num \div den, 0)
        d == den * Pow2(k)
        q == num \div d
        r == num % d
        up == (2 * r > d) \/ (2 * r = d /\ q % 2 = 1)
    IN  (IF up THEN q + 1 ELSE q) * Pow2(k)

RoundRat(num, den) == IF num < 0 THEN 0 - RoundMag(0 - num, den) ELSE RoundMag(num, den)

\* float + float
FAdd(a, b) == RoundRat(a + b, 1)

\* float(n) for a Python int n
FromInt(n) == RoundRat(n * FloatOne, 1)

\* float / float, a true division: y = 0 raises ZeroDivisionError
FDiv(x, y) ==
    IF y = 0 THEN [error |-> TRUE, val |-> 0]
    ELSE [error |-> FALSE,
          val |-> IF y < 0 THEN RoundRat((0 - x) * FloatOne, 0 - y)
                           ELSE RoundRat(x * FloatOne, y)]

\* sum(times): starts from the int 0 and adds left to right
RECURSIVE FSum(_, _)
FSum(times, acc) ==
    IF times = <<>> THEN acc ELSE FSum(Tail(times), FAdd(acc, Head(times)))

RECURSIVE SeqMin(_)
SeqMin(s) ==
    IF Len(s) = 1 THEN s[1]
    ELSE LET m == SeqMin(Tail(s)) IN IF m < s[1] THEN m ELSE s[1]

RECURSIVE SeqMax(_)
SeqMax(s) ==
    IF Len(s) = 1 THEN s[1]
    ELSE LET m == SeqMax(Tail(s)) IN IF m > s[1] THEN m ELSE s[1]

\* ------------------------------------------------------------ data model

BenchResult(tool, operation, threads, iteration, time_s) ==
    [tool |-> tool, operation |-> operation, threads |-> threads,
     iteration |-> iteration, time_s |-> time_s]

KeyOf(r) == <<r.tool, r.operation, r.threads>>

\* pts_per_s without its mean_s > 0 test
PtsPerSUnguarded(s) == FDiv(FromInt(s.num_points), s.mean_s)

\* BenchSummary.pts_per_s
PtsPerS(s) ==
    IF s.mean_s > 0 THEN FDiv(FromInt(s.num_points), s.mean_s)
    ELSE [error |-> FALSE, val |-> 0]

\* the 1e6 of BenchSummary.mb_per_s
Mega == 1000000

\* BenchSummary.mb_per_s
MbPerS(s) ==
    IF s.mean_s > 0
    THEN LET mb == FDiv(FromInt(s.file_size_bytes), FromInt(Mega))
         IN  IF mb.error THEN mb ELSE FDiv(mb.val, s.mean_s)
    ELSE [error |-> FALSE, val |-> 0]

\* ------------------------------------------------------------- aggregate

\* the keys of the groups dict, in insertion order
RECURSIVE GroupKeys(_, _)
GroupKeys(raw, seen) ==
    IF raw = <<>> THEN seen
    ELSE LET k == KeyOf(Head(raw))
         IN  IF \E i \in 1..Len(seen) : seen[i] = k
             THEN GroupKeys(Tail(raw), seen)
             ELSE GroupKeys(Tail(raw), Append(seen, k))

\* groups[key]: the times of the samples of that key, in input order
RECURSIVE GroupTimes(_, _)
GroupTimes(raw, key) ==
    IF raw = <<>> THEN <<>>
    ELSE IF KeyOf(Head(raw)) = key
         THEN <<Head(raw).time_s>> \o GroupTimes(Tail(raw), key)
         ELSE GroupTimes(Tail(raw), key)

\* mean_s = sum(times) / len(times)
MeanOf(times) == FDiv(FSum(times, 0), FromInt(Len(times))).val

SummaryOf(key, times, num_points, file_size_bytes) ==
    [tool |-> key[1], operation |-> key[2], threads |-> key[3],
     n |-> Len(times),
     mean_s |-> MeanOf(times),
     min_s |-> SeqMin(times),
     max_s |-> SeqMax(times),
     num_points |-> num_points,
     file_size_bytes |-> file_size_bytes]

aggregate(raw, num_points, file_size_bytes) ==
    LET keys == GroupKeys(raw, <<>>)
    IN  [i \in 1..Len(keys) |->
            SummaryOf(keys[i], GroupTimes(raw, keys[i]), num_points, file_size_bytes)]

\* --------------------------------------------------------------- drivers
(* A driver call is a function of its arguments and of what its environment  *)
(* does during the call, the record env:                                     *)
(*   has        the tool's library or executable is there                    *)
(*   fail       the first invocation of the warmup+timed loops that raises   *)
(*              (1..warmup+iterations), 0 when none does                     *)
(*   times      the elapsed time timed() measures, per timed iteration       *)
(*   stray      lines a child process prints besides the script's own        *)
(*   preread    whether benchmark_laspy_write's untimed pre-read returns     *)
(*   probe, fallback   how benchmark_lazrs_read's two trial reads end        *)
(* Its outcome is [raised, results]: an exception leaves the caller nothing. *)

\* the laspy.LazBackend members main() benchmarks
LaspyBackends == {"LazrsParallel", "Laszip"}

\* the label main() gives a laspy backend
BackendLabel(backend) ==
    IF backend = "LazrsParallel" THEN "laspy (lazrs-parallel)" ELSE "laspy (laszip)"

\* num_threads: Optional[int] = None
None == -1

\* `num_threads or 0`
OrZero(num_threads) == IF num_threads = None THEN 0 ELSE num_threads

Raised == [raised |-> TRUE, results |-> <<>>]

Returned(results) == [raised |-> FALSE, results |-> results]

\* for _ in range(warmup): fn()      TRUE when the loop runs to its end
WarmupLoop(warmup, env) == env.fail = 0 \/ env.fail > warmup

\* the timed loop numbering its samples from 1
RECURSIVE TimedLoopFromOne(_, _, _, _, _, _, _, _)
TimedLoopFromOne(tool, operation, threads, warmup, iterations, env, it, results) ==
    IF it >= iterations THEN Returned(results)
    ELSE IF env.fail = warmup + it + 1 THEN Raised
    ELSE TimedLoopFromOne(tool, operation, threads, warmup, iterations, env, it + 1,
                   Append(results, BenchResult(tool, operation, threads, it + 1, env.times[it + 1])))

\* for it in range(iterations): t = timed(fn); results.append(BenchResult(.., it, t))
RECURSIVE TimedLoop(_, _, _, _, _, _, _, _)
TimedLoop(tool, operation, threads, warmup, iterations, env, it, results) ==
    IF it >= iterations THEN Returned(results)
    ELSE IF env.fail = warmup + it + 1 THEN Raised
    ELSE TimedLoop(tool, operation, threads, warmup, iterations, env, it + 1,
                   Append(results, BenchResult(tool, operation, threads, it, env.times[it + 1])))

\* the warmup loop, then the timed loop
RunLoops(tool, operation, threads, warmup, iterations, env) ==
    IF WarmupLoop(warmup, env)
    THEN TimedLoop(tool, operation, threads, warmup, iterations, env, 0, <<>>)
    ELSE Raised

\* A line of text is the sequence of its comma-separated fields; a field is an
\* int literal, a float literal or other text.
IntField(n) == [kind |-> "int", val |-> n]
FloatField(x) == [kind |-> "float", val |-> x]
TextField == [kind |-> "text", val |-> 0]

\* print(f"{it},{elapsed}"): str() of a float is its shortest round-trip literal
PairLine(it, elapsed) == <<IntField(it), FloatField(elapsed)>>

\* the script run by the child: its exit code and the lines on its stdout
RECURSIVE ChildTimed(_, _, _, _, _)
ChildTimed(warmup, iterations, env, it, out) ==
    IF it >= iterations THEN [returncode |-> 0, stdout |-> out]
    ELSE IF env.fail = warmup + it + 1 THEN [returncode |-> 1, stdout |-> out]
    ELSE ChildTimed(warmup, iterations, env, it + 1,
                    Append(out, PairLine(it, env.times[it + 1])))

ChildScript(warmup, iterations, env) ==
    IF WarmupLoop(warmup, env)
    THEN ChildTimed(warmup, iterations, env, 0, env.stray)
    ELSE [returncode |-> 1, stdout |-> env.stray]

\* for line in proc.stdout.strip().split('\n'): if ',' in line: ...
RECURSIVE ParseLines(_, _, _, _)
ParseLines(lines, backend_name, num_threads, results) ==
    IF lines = <<>> THEN Returned(results)
    ELSE LET line == Head(lines)
         IN  IF Len(line) < 2
             THEN ParseLines(Tail(lines), backend_name, num_threads, results)
             ELSE IF Len(line) # 2 THEN Raised
             ELSE IF line[1].kind # "int" THEN Raised
             ELSE IF line[2].kind \notin {"int", "float"} THEN Raised
             ELSE ParseLines(Tail(lines), backend_name, num_threads,
                             Append(results, BenchResult(backend_name, "read", num_threads,
                                                         line[1].val, line[2].val)))

benchmark_laspy_read(backend, backend_name, warmup, iterations, num_threads, env) ==
    IF ~env.has THEN Raised
    ELSE IF backend = "LazrsParallel" /\ num_threads # None
    THEN LET proc == ChildScript(warmup, iterations, env)
         IN  IF proc.returncode # 0 THEN Raised
             ELSE ParseLines(proc.stdout, backend_name, num_threads, <<>>)
    ELSE RunLoops(backend_name, "read", OrZero(num_threads), warmup, iterations, env)

benchmark_laspy_write(backend, backend_name, warmup, iterations, num_threads, env) ==
    IF ~env.has THEN Raised
    ELSE IF ~env.preread THEN Raised
    ELSE RunLoops(backend_name, "write", OrZero(num_threads), warmup, iterations, env)

benchmark_lazrs_read(warmup, iterations, env) ==
    IF ~env.has THEN Returned(<<>>)
    ELSE IF env.probe = "Exception" THEN Returned(<<>>)
    ELSE IF env.probe = "AttributeError" /\ env.fallback = "Exception" THEN Returned(<<>>)
    ELSE RunLoops("lazrs", "read", 0, warmup, iterations, env)

benchmark_pdal_read(warmup, iterations, env) ==
    IF ~env.has THEN Returned(<<>>)
    ELSE RunLoops("pdal", "read", 0, warmup, iterations, env)

benchmark_pdal_write(warmup, iterations, env) ==
    IF ~env.has THEN Returned(<<>>)
    ELSE RunLoops("pdal", "write", 0, warmup, iterations, env)

\* an environment in which only the loops' invocations may raise
QuietEnv(has, fail, times) ==
    [has |-> has, fail |-> fail, times |-> times, stray |-> <<>>,
     preread |-> TRUE, probe |-> "ok", fallback |-> "ok"]

\* ------------------------------------------- the native benchmark binary

\* the metadata keys run_cpp_benchmark copies, and the fields of a result object
MetaKeys == {"platform", "has_thread_control", "hardware_threads", "file",
             "num_points", "file_size_bytes", "point_format", "is_compressed"}

ResultFields == {"tool", "operation", "threads", "iteration", "time_s"}

Operations(operation) == IF operation = "both" THEN <<"read", "write">> ELSE <<operation>>

\* one result object per iteration
ToolRuns(tool, operation, threads, iterations, t) ==
    [i \in 1..iterations |->
        [fields |-> ResultFields, tool |-> tool, operation |-> operation,
         threads |-> threads, iteration |-> i - 1, time_s |-> t]]

Range(s) == {s[i] : i \in DOMAIN s}

RECURSIVE Concat(_)
Concat(seqs) == IF seqs = <<>> THEN <<>> ELSE Head(seqs) \o Concat(Tail(seqs))

\* the results array the binary prints: the primary codec at every thread count of
\* --threads, each reference codec once, unless excluded, for every operation
NativeResults(thread_counts, iterations, operation, include_laszip, include_lazperf, t) ==
    LET ops == Operations(operation)
    IN  Concat([o \in 1..Len(ops) |->
            Concat([k \in 1..Len(thread_counts) |->
                       ToolRuns("laspp", ops[o], thread_counts[k], iterations, t)])
            \o (IF include_laszip THEN ToolRuns("laszip", ops[o], 1, iterations, t) ELSE <<>>)
            \o (IF include_lazperf THEN ToolRuns("lazperf", ops[o], 1, iterations, t) ELSE <<>>)])

\* the point count the binary reports for the input file
NativeNumPoints == 3

\* a value of the metadata dict: sizes and counts are numbers, every other value is
\* 0 when main() set it and 1 when the binary reported it
NativeMetaValue(k, file_size) ==
    IF k = "num_points" THEN NativeNumPoints
    ELSE IF k = "file_size_bytes" THEN file_size ELSE 1

\* a document the binary prints on a successful exit
NativeDocument(results, file_size) ==
    [returncode |-> 0, is_json |-> TRUE, keys |-> MetaKeys \cup {"results"},
     values |-> [k \in MetaKeys |-> NativeMetaValue(k, file_size)], results |-> results]

DropField(results, f) ==
    [i \in DOMAIN results |->
        IF i = 1 THEN [results[i] EXCEPT !.fields = @ \ {f}] ELSE results[i]]

\* the first result object reporting an elapsed time of 0
ZeroTime(results) ==
    [i \in DOMAIN results |->
        IF i = 1 THEN [results[i] EXCEPT !.time_s = 0] ELSE results[i]]

\* what a run of the binary may give: the document, a non-zero exit, output that
\* is no JSON, a document that lacks a key, or a document with a time_s of 0
NativeAnswers(results, file_size) ==
    LET doc == NativeDocument(results, file_size)
    IN  { doc,
          [doc EXCEPT !.returncode = 1],
          [doc EXCEPT !.is_json = FALSE],
          [doc EXCEPT !.keys = @ \ {"num_points"}],
          [doc EXCEPT !.keys = @ \ {"results"}],
          [doc EXCEPT !.results = DropField(@, "time_s")],
          [doc EXCEPT !.results = ZeroTime(@)] }

RaisedCpp == [raised |-> TRUE, metadata |-> <<>>, results |-> <<>>]

\* the list comprehension over data.get("results", []): r["tool"], ... raise KeyError
RECURSIVE ResultObjects(_, _)
ResultObjects(objs, results) ==
    IF objs = <<>> THEN [raised |-> FALSE, results |-> results]
    ELSE IF ~(ResultFields \subseteq Head(objs).fields) THEN [raised |-> TRUE, results |-> <<>>]
    ELSE ResultObjects(Tail(objs),
             Append(results, BenchResult(Head(objs).tool, Head(objs).operation,
                                         Head(objs).threads, Head(objs).iteration,
                                         Head(objs).time_s)))

\* run_cpp_benchmark, given what the process it ran answered
run_cpp_benchmark(proc) ==
    IF proc.returncode # 0 THEN RaisedCpp
    ELSE IF ~proc.is_json THEN RaisedCpp
    ELSE LET meta == [k \in MetaKeys \cap proc.keys |-> proc.values[k]]
             objs == IF "results" \in proc.keys THEN proc.results ELSE <<>>
             res == ResultObjects(objs, <<>>)
         IN  IF res.raised THEN RaisedCpp
             ELSE [raised |-> FALSE, metadata |-> meta, results |-> res.results]

\* ------------------------------------------------------------------ main

AllTools == {"laspp", "laszip", "laspy", "lazrs", "pdal", "lazperf"}

\* the --threads lists tried: 1 | 1,2 | 1,2,4 | ...
ThreadList(n) == [i \in 1..n |-> Pow2(i - 1)]

\* the size file.stat() reports
HostFileSizes == {0, 2 * Mega}

\* the module-level flags
Hosts == [has_laspy : BOOLEAN, has_lazrs : BOOLEAN, has_pdal : BOOLEAN]

BackendKey(backend) ==
    IF backend = "LazrsParallel" THEN "laspy_lazrs_parallel" ELSE "laspy_laszip"

\* what laspy.LazBackend.detect_available() does: raises, or gives the backends there
Detections ==
    {[raises |-> FALSE, avail |-> a] : a \in SUBSET LaspyBackends}
    \cup {[raises |-> TRUE, avail |-> {}]}

\* detect_laspy_backends: the keys marked True
detect_laspy_backends(has_laspy, detection) ==
    IF ~has_laspy THEN {}
    ELSE IF detection.raises THEN {}
    ELSE {BackendKey(b) : b \in detection.avail}

\* the metadata dict main() starts from
InitialMetadata(file_size) ==
    [k \in {"file", "num_points", "file_size_bytes", "hardware_threads",
            "platform", "has_thread_control"} |->
        IF k = "file_size_bytes" THEN file_size ELSE 0]

\* dict.update
Update(d, e) ==
    [k \in DOMAIN d \cup DOMAIN e |-> IF k \in DOMAIN e THEN e[k] ELSE d[k]]

\* dict.get(key, default)
Get(d, k, default) == IF k \in DOMAIN d THEN d[k] ELSE default

do_read(a) == a.operation \in {"read", "both"}
do_write(a) == a.operation \in {"write", "both"}

Notice(kind, tool) == [kind |-> kind, tool |-> tool]

Cell(tool, operation, threads) == [tool |-> tool, operation |-> operation, threads |-> threads]

\* what a driver called by main() may meet: nothing, or an invocation that raises
MainTime == FloatOne + 2

MainEnvs(has, warmup, iterations) ==
    {QuietEnv(has, f, [i \in 1..iterations |-> MainTime]) :
        f \in {0, 1}}

LazrsEnvs(has, warmup, iterations) ==
    {[e EXCEPT !.probe = pb, !.fallback = fb] :
        e \in MainEnvs(has, warmup, iterations),
        pb \in {"ok", "AttributeError", "Exception"}, fb \in {"ok", "Exception"}}

\* the laspy block sweeping the thread counts for both backends
LaspyCallsSweepAll(a, backend) ==
    LET one(n) == (IF do_read(a) THEN <<[driver |-> "laspy_read", backend |-> backend,
                                         num_threads |-> n]>> ELSE <<>>)
               \o (IF do_write(a) THEN <<[driver |-> "laspy_write", backend |-> backend,
                                          num_threads |-> n]>> ELSE <<>>)
    IN  Concat([k \in 1..Len(a.thread_counts) |-> one(a.thread_counts[k])])

\* the calls of one `try:` block, in order: each a driver and its cell
LaspyCalls(a, backend) ==
    LET counts == IF backend = "LazrsParallel" THEN a.thread_counts ELSE <<1>>
        one(n) == (IF do_read(a) THEN <<[driver |-> "laspy_read", backend |-> backend,
                                         num_threads |-> n]>> ELSE <<>>)
               \o (IF do_write(a) THEN <<[driver |-> "laspy_write", backend |-> backend,
                                          num_threads |-> n]>> ELSE <<>>)
    IN  Concat([k \in 1..Len(counts) |-> one(counts[k])])

LazrsCalls(a) ==
    IF do_read(a) THEN <<[driver |-> "lazrs_read", backend |-> "-", num_threads |-> None]>>
    ELSE <<>>

PdalCalls(a) ==
    (IF do_read(a) THEN <<[driver |-> "pdal_read", backend |-> "-", num_threads |-> None]>>
     ELSE <<>>)
    \o (IF do_write(a) THEN <<[driver |-> "pdal_write", backend |-> "-", num_threads |-> None]>>
        ELSE <<>>)

\* the driver a call names, applied
CallDriver(c, a, env) ==
    CASE c.driver = "laspy_read" ->
           benchmark_laspy_read(c.backend, BackendLabel(c.backend), a.warmup, a.iterations,
                                c.num_threads, env)
      [] c.driver = "laspy_write" ->
           benchmark_laspy_write(c.backend, BackendLabel(c.backend), a.warmup, a.iterations,
                                 c.num_threads, env)
      [] c.driver = "lazrs_read" -> benchmark_lazrs_read(a.warmup, a.iterations, env)
      [] c.driver = "pdal_read" -> benchmark_pdal_read(a.warmup, a.iterations, env)
      [] c.driver = "pdal_write" -> benchmark_pdal_write(a.warmup, a.iterations, env)

\* the cell a call measures
CellOf(c) ==
    CASE c.driver = "laspy_read" -> Cell(BackendLabel(c.backend), "read", c.num_threads)
      [] c.driver = "laspy_write" -> Cell(BackendLabel(c.backend), "write", c.num_threads)
      [] c.driver = "lazrs_read" -> Cell("lazrs", "read", 0)
      [] c.driver = "pdal_read" -> Cell("pdal", "read", 0)
      [] c.driver = "pdal_write" -> Cell("pdal", "write", 0)

\* a driver call main() made: its cell, whether it raised, the samples it returned
Dispatch(c, ret) == [cell |-> CellOf(c), raised |-> ret.raised, n |-> Len(ret.results)]

\* the body of one `try:` block: the calls run in order, each one's samples are
\* added to all_results as it returns, and the first one that raises ends the block
RECURSIVE TryBlock(_, _, _, _, _, _)
TryBlock(calls, envs, a, i, results, cells) ==
    IF i > Len(calls) THEN [raised |-> FALSE, results |-> results, cells |-> cells]
    ELSE LET ret == CallDriver(calls[i], a, envs[i])
         IN  IF ret.raised
             THEN [raised |-> TRUE, results |-> results,
                   cells |-> cells \cup {Dispatch(calls[i], ret)}]
             ELSE TryBlock(calls, envs, a, i + 1, results \o ret.results,
                           cells \cup {Dispatch(calls[i], ret)})

\* what a specification leaves alone
NoValue == [none |-> TRUE]

MainIdle ==
    /\ pc = "idle" /\ args = NoValue /\ host = NoValue /\ laspy_backends = {}
    /\ metadata = NoValue /\ all_results = <<>> /\ notices = {} /\ dispatched = {}
    /\ native = NoValue /\ summaries = <<>> /\ exit_code = -1 /\ json_out = NoValue

DrvIdle == drv_call = NoValue /\ drv_ret = NoValue /\ drv_fx = NoValue

AggIdle == agg_in = NoValue /\ agg_out = NoValue

\* num_points = metadata.get("num_points", 0), file_size_bytes = metadata.get(...),
\* summaries = aggregate(all_results, num_points, file_size_bytes)
Summarise(results, meta) ==
    aggregate(results, Get(meta, "num_points", 0), Get(meta, "file_size_bytes", 0))

\* the "summaries" entries of the JSON payload, which evaluate the two properties
Payload(sums) ==
    [i \in DOMAIN sums |->
        [tool |-> sums[i].tool, operation |-> sums[i].operation,
         threads |-> sums[i].threads, mean_s |-> sums[i].mean_s,
         min_s |-> sums[i].min_s, max_s |-> sums[i].max_s,
         pts_per_s |-> PtsPerS(sums[i]), mb_per_s |-> MbPerS(sums[i])]]

\* main() without its `if not all_results` test
FinishOutcomeNoTest(results, meta, output) ==
    [exit_code |-> 0, summaries |-> Summarise(results, meta),
     json_written |-> output, notices |-> {}]

\* what main() does once every section has run (the aggregate & display, JSON
\* output and return of main): the exit code, the summaries, the JSON write
FinishOutcome(results, meta, output) ==
    IF results = <<>>
    THEN [exit_code |-> 1, summaries |-> <<>>, json_written |-> FALSE,
          notices |-> {Notice("error", "no results")}]
    ELSE [exit_code |-> 0,
          summaries |-> Summarise(results, meta),
          json_written |-> output,
          notices |-> {}]

\* the --tools sets tried: the default, each tool alone, the two codecs of the
\* binary, the three Python-side tools
ToolSets ==
    {AllTools} \cup {{t} : t \in AllTools}
    \cup {{"laspp", "laszip"}, {"laspy", "lazrs", "pdal"}}

InitMain ==
    /\ DrvIdle /\ AggIdle
    /\ pc = "start"
    /\ args \in [tools : ToolSets,
                 operation : {"read", "write", "both"},
                 thread_counts : {ThreadList(MaxThreadCounts)},
                 iterations : {MainIterations},
                 warmup : {MaxWarmup}]
    /\ host \in Hosts
    /\ laspy_backends = {}
    /\ metadata = NoValue /\ all_results = <<>> /\ notices = {} /\ dispatched = {}
    /\ native = NoValue /\ summaries = <<>> /\ exit_code = -1 /\ json_out = NoValue

\* if not file.exists(): return 1
MainFileMissing ==
    /\ pc = "start"
    /\ pc' = "done"
    /\ exit_code' = 1
    /\ notices' = notices \cup {Notice("error", "file not found")}
    /\ UNCHANGED <<args, host, laspy_backends, metadata, all_results, dispatched, native, summaries,
                   json_out, drvVars, aggVars>>

\* the argument handling and the initial metadata
MainStart ==
    /\ pc = "start"
    /\ pc' = "cpp"
    /\ metadata' = InitialMetadata(2 * Mega)
    /\ UNCHANGED <<args, host, laspy_backends, all_results, notices, dispatched, native, summaries,
                   exit_code, json_out, drvVars, aggVars>>

needs_cpp(a) == a.tools \cap {"laspp", "laszip"} # {}

\* the C++ benchmark section: not asked for
MainCppNotNeeded ==
    /\ pc = "cpp" /\ ~needs_cpp(args)
    /\ pc' = "detect"
    /\ UNCHANGED <<args, host, laspy_backends, metadata, all_results, notices, dispatched, native,
                   summaries, exit_code, json_out, drvVars, aggVars>>

\* the C++ benchmark section: find_benchmark_binary finds no executable
MainCppNoBinary ==
    /\ pc = "cpp" /\ needs_cpp(args)
    /\ pc' = "detect"
    /\ native' = [found |-> FALSE]
    /\ notices' = notices \cup {Notice("skip", "laspp"), Notice("skip", "laszip")}
    /\ UNCHANGED <<args, host, laspy_backends, metadata, all_results, dispatched,
                   summaries, exit_code, json_out, drvVars, aggVars>>

\* the C++ benchmark section: an executable is found, and run
MainCppRun ==
    /\ pc = "cpp" /\ needs_cpp(args)
    /\ LET include_laszip == "laszip" \in args.tools
           include_laspp_threads == IF "laspp" \in args.tools THEN args.thread_counts
                                    ELSE <<1>>
       IN  \E proc \in NativeAnswers(
                          NativeResults(include_laspp_threads, args.iterations,
                                        args.operation, include_laszip, TRUE, MainTime),
                          metadata["file_size_bytes"]) :
             LET ret == run_cpp_benchmark(proc)
             IN  /\ native' = [thread_counts |-> include_laspp_threads,
                               include_laszip |-> include_laszip,
                               include_lazperf |-> TRUE, proc |-> proc]
                 /\ IF ret.raised
                    THEN /\ notices' = notices \cup {Notice("warning", "C++ benchmark")}
                         /\ UNCHANGED <<metadata, all_results>>
                    ELSE /\ metadata' = Update(metadata, ret.metadata)
                         /\ all_results' = all_results \o ret.results
                         /\ UNCHANGED notices
    /\ pc' = "detect"
    /\ UNCHANGED <<args, host, laspy_backends, dispatched, summaries, exit_code, json_out,
                   drvVars, aggVars>>

\* laspy_backends = detect_laspy_backends() if _HAS_LASPY else {}
MainDetect ==
    /\ pc = "detect"
    /\ pc' = "laspy"
    /\ \E d \in Detections :
          laspy_backends' = IF host.has_laspy
                            THEN detect_laspy_backends(host.has_laspy, d) ELSE {}
    /\ UNCHANGED <<args, host, metadata, all_results, notices, dispatched, native,
                   summaries, exit_code, json_out, drvVars, aggVars>>

\* a `try:` block of main(): its calls, and the warning when one of them raises
RunTry(calls, envs, tool) ==
    LET blk == TryBlock(calls, envs, args, 1, <<>>, {})
    IN  /\ all_results' = all_results \o blk.results
        /\ dispatched' = dispatched \cup blk.cells
        /\ notices' = IF blk.raised THEN notices \cup {Notice("warning", tool)} ELSE notices

\* the laspy section: laspy is not asked for, or not installed
MainLaspySkip ==
    /\ pc = "laspy" /\ ~("laspy" \in args.tools /\ host.has_laspy)
    /\ pc' = "lazrs"
    /\ notices' = IF "laspy" \in args.tools
                  THEN notices \cup {Notice("skip", "laspy")} ELSE notices
    /\ UNCHANGED <<args, host, laspy_backends, metadata, all_results, dispatched, native,
                   summaries, exit_code, json_out, drvVars, aggVars>>

\* the laspy section: one pass of the loop over the two backends
MainLaspyBackend(backend) ==
    /\ pc = (IF backend = "LazrsParallel" THEN "laspy" ELSE "laspy_laszip")
    /\ "laspy" \in args.tools /\ host.has_laspy
    /\ pc' = (IF backend = "LazrsParallel" THEN "laspy_laszip" ELSE "lazrs")
    /\ IF BackendKey(backend) \notin laspy_backends
       THEN UNCHANGED <<all_results, dispatched, notices>>
       ELSE LET calls == LaspyCalls(args, backend)
            IN  \E envs \in [1..Len(calls) ->
                                MainEnvs(host.has_laspy, args.warmup, args.iterations)] :
                    RunTry(calls, envs, BackendLabel(backend))
    /\ UNCHANGED <<args, host, laspy_backends, metadata, native, summaries, exit_code, json_out,
                   drvVars, aggVars>>

\* the lazrs section
MainLazrs ==
    /\ pc = "lazrs"
    /\ pc' = "pdal"
    /\ IF "lazrs" \in args.tools /\ host.has_lazrs
       THEN LET calls == LazrsCalls(args)
            IN  \E envs \in [1..Len(calls) ->
                                LazrsEnvs(host.has_lazrs, args.warmup, args.iterations)] :
                    RunTry(calls, envs, "lazrs")
       ELSE /\ notices' = IF "lazrs" \in args.tools /\ ~host.has_laspy
                          THEN notices \cup {Notice("skip", "lazrs")} ELSE notices
            /\ UNCHANGED <<all_results, dispatched>>
    /\ UNCHANGED <<args, host, laspy_backends, metadata, native, summaries, exit_code, json_out,
                   drvVars, aggVars>>

\* the PDAL section
MainPdal ==
    /\ pc = "pdal"
    /\ pc' = "finish"
    /\ IF "pdal" \in args.tools /\ host.has_pdal
       THEN LET calls == PdalCalls(args)
            IN  \E envs \in [1..Len(calls) ->
                                MainEnvs(host.has_pdal, args.warmup, args.iterations)] :
                    RunTry(calls, envs, "PDAL")
       ELSE /\ notices' = IF "pdal" \in args.tools
                          THEN notices \cup {Notice("skip", "pdal")} ELSE notices
            /\ UNCHANGED <<all_results, dispatched>>
    /\ UNCHANGED <<args, host, laspy_backends, metadata, native, summaries, exit_code, json_out,
                   drvVars, aggVars>>

\* aggregate & display, the JSON output, the return
MainFinish ==
    /\ pc = "finish"
    /\ pc' = "done"
    /\ \E output \in BOOLEAN :
          LET out == FinishOutcome(all_results, metadata, output)
          IN  /\ exit_code' = out.exit_code
              /\ summaries' = out.summaries
              /\ json_out' = [asked |-> output, written |-> out.json_written]
              /\ notices' = notices \cup out.notices
    /\ UNCHANGED <<args, host, laspy_backends, metadata, all_results, dispatched, native, drvVars, aggVars>>

Next ==
    \/ MainFileMissing \/ MainStart
    \/ MainCppNotNeeded \/ MainCppNoBinary \/ MainCppRun \/ MainDetect
    \/ MainLaspySkip \/ \E b \in LaspyBackends : MainLaspyBackend(b)
    \/ MainLazrs \/ MainPdal \/ MainFinish

Spec == InitMain /\ [][Next]_vars

\* ----------------------------------------------------------- claims: main

\* main() went through its sections and returned
Finished == pc = "done" /\ metadata # NoValue

\* the cells main() has to dispatch for what was asked and what the host has
LaspyCells ==
    IF "laspy" \in args.tools /\ host.has_laspy
    THEN UNION {{CellOf(c) : c \in Range(LaspyCalls(args, b))} :
                    b \in {x \in LaspyBackends : BackendKey(x) \in laspy_backends}}
    ELSE {}

LazrsCells ==
    IF "lazrs" \in args.tools /\ host.has_lazrs
    THEN {CellOf(c) : c \in Range(LazrsCalls(args))} ELSE {}

PdalCells ==
    IF "pdal" \in args.tools /\ host.has_pdal
    THEN {CellOf(c) : c \in Range(PdalCalls(args))} ELSE {}

ApplicableCells == LaspyCells \cup LazrsCells \cup PdalCells

DispatchedCells == {d.cell : d \in dispatched}

SamplesOf(cell) ==
    {i \in DOMAIN all_results : KeyOf(all_results[i]) = <<cell.tool, cell.operation, cell.threads>>}

\* C1: when the driver of one cell raises, the failure is caught and every other
\* applicable cell is still dispatched, the remaining thread counts and the
\* remaining operation of the same tool included; the samples of the cells that
\* succeeded are kept.
C1_EveryCellDispatched ==
    Finished =>
        /\ ApplicableCells \subseteq DispatchedCells
        /\ \A d \in dispatched : ~d.raised => Cardinality(SamplesOf(d.cell)) = d.n

\* C2: with no sample collected main returns 1 and writes no JSON file, --output
\* given or not; with at least one sample it reaches the JSON write (the file is
\* written when --output was given) and returns 0.
C2_ExitCodeFollowsSamples ==
    Finished =>
        IF all_results = <<>>
        THEN exit_code = 1 /\ ~json_out.written
        ELSE exit_code = 0 /\ json_out.written = json_out.asked

C2_Witness ==
    /\ Finished
    /\ all_results = <<>>
    /\ json_out.asked
    /\ args.tools = AllTools
    /\ \E d \in dispatched : d.raised
    /\ exit_code = 1

\* the tools main() reports absent, and the sample identifiers of each
HostTools == {"laspp", "laszip", "laspy", "lazrs", "pdal"}

Absent(tool) ==
    CASE tool \in {"laspp", "laszip"} -> native = [found |-> FALSE]
      [] tool = "laspy" -> ~host.has_laspy
      [] tool = "lazrs" -> ~host.has_lazrs
      [] tool = "pdal" -> ~host.has_pdal

Identifiers(tool) ==
    IF tool = "laspy" THEN {BackendLabel(b) : b \in LaspyBackends} ELSE {tool}

\* C3: for every requested tool that is absent from the host (laspy or lazrs not
\* importable, pdal not on PATH, benchmark binary not found) the run does not fail
\* because of it, a skip notice naming the tool is printed, and no sample bears the
\* tool's identifier, whatever other tools are installed.
C3_AbsentToolSkippedWithNotice ==
    Finished =>
        \A tool \in args.tools \cap HostTools :
            Absent(tool) =>
                /\ Notice("skip", tool) \in notices
                /\ \A i \in DOMAIN all_results : all_results[i].tool \notin Identifiers(tool)
                /\ exit_code = 0 \/ all_results = <<>>

\* the answers of the binary that break the protocol
ProtocolViolation(proc) ==
    \/ proc.returncode # 0
    \/ ~proc.is_json
    \/ ~(MetaKeys \cup {"results"} \subseteq proc.keys)
    \/ \E i \in DOMAIN proc.results : ~(ResultFields \subseteq proc.results[i].fields)

NativeRan == pc \notin {"start", "cpp"} /\ native # NoValue /\ "proc" \in DOMAIN native

\* C7: when the binary exits non-zero, prints no valid JSON, or prints a document
\* that lacks a required key (a metadata field, the results array, a field of a
\* result object), run_cpp_benchmark raises: the run takes neither samples nor
\* metadata from the adapter, and the remaining requested tools are still benchmarked.
C7_ProtocolViolationRaises ==
    (NativeRan /\ ProtocolViolation(native.proc)) =>
        /\ Notice("warning", "C++ benchmark") \in notices
        /\ metadata = InitialMetadata(2 * Mega)
        /\ \A i \in DOMAIN all_results :
              all_results[i].tool \notin {"laspp", "laszip", "lazperf"}
        /\ Finished =>
              \A cells \in {LaspyCells, LazrsCells, PdalCells} :
                  cells # {} => cells \cap DispatchedCells # {}

\* the tools measured at more than one thread count: by the binary, which is handed
\* a list, or by main()'s own dispatch
SweptTools ==
    (IF native # NoValue /\ "thread_counts" \in DOMAIN native /\ Len(native.thread_counts) > 1
     THEN {"laspp"} ELSE {})
    \cup {d.cell.tool : d \in {x \in dispatched :
             \E y \in dispatched : y.cell.tool = x.cell.tool /\ y.cell.threads # x.cell.threads}}

\* the laspy backend the code calls single-threaded is measured at thread count 1
\* only, once per operation
SingleThreadedAtOne ==
    /\ \A d \in dispatched :
          d.cell.tool = BackendLabel("Laszip") =>
              d.cell.threads = 1 /\ Cardinality(SamplesOf(d.cell)) <= args.iterations
    /\ \A i \in DOMAIN all_results :
          all_results[i].tool = BackendLabel("Laszip") => all_results[i].threads = 1

LazrsParallelDispatched == {d \in dispatched : d.cell.tool = BackendLabel("LazrsParallel")}

C15_SampleTimesPositive ==
    \A i \in DOMAIN all_results : all_results[i].time_s > 0

\* the --tools name a sample's tool identifier belongs to
RequestedAs(tool) ==
    IF tool \in {BackendLabel(b) : b \in LaspyBackends} THEN "laspy" ELSE tool

\* C16: every sample in the run's collection bears the identifier of a tool in the
\* requested tool set: a tool left out of --tools contributes no sample, laspp
\* when only laszip is requested and lazperf when it is left out included.
C16_OnlyRequestedTools ==
    pc # "idle" =>
        \A i \in DOMAIN all_results : RequestedAs(all_results[i].tool) \in args.tools

\* ------------------------------------------------- drivers: side effects
(* What a driver call does besides returning, the record fx:                 *)
(*   tmp_created  the temporary files it created                             *)
(*   tmp_left     those that still exist when the call ends                  *)
(*   child        the Python child process it spawned: the RAYON_NUM_THREADS *)
(*                of the child's environment and the loops the child runs    *)
(*   environ      the values it assigned to os.environ["RAYON_NUM_THREADS"]  *)
(*                of its own process, in order (None: the variable removed)  *)
(*   swallowed    the exceptions it caught without re-raising                *)
(*   printed      the messages it printed                                    *)

\* the RAYON_NUM_THREADS the harness may be started with, when it is set
HostRayon == 8

NoEffects ==
    [tmp_created |-> {}, tmp_left |-> {}, child |-> NoValue, environ |-> <<>>,
     swallowed |-> {}, printed |-> {}]

\* the unlink placed after the loops instead of in a `finally:`
UnlinkAfterLoops(files, path, loops) == IF loops.raised THEN files ELSE files \ {path}

\* try: <loops> finally: path.unlink(missing_ok=True)
UnlinkFinally(files, path, loops) == files \ {path}

\* finally: os.environ.pop(..) if old_rayon_threads is None else os.environ[..] = old
RestoreEnviron(old_rayon_threads) == <<old_rayon_threads>>

laspy_read_effects(c) ==
    IF ~c.env.has THEN NoEffects
    ELSE IF c.backend = "LazrsParallel" /\ c.num_threads # None
    THEN [NoEffects EXCEPT !.child = [rayon |-> c.num_threads, warmup |-> c.warmup,
                                      iterations |-> c.iterations]]
    ELSE [NoEffects EXCEPT !.environ =
             (IF c.num_threads # None /\ c.backend = "LazrsParallel"
              THEN <<c.num_threads>> ELSE <<>>)
             \o RestoreEnviron(c.old_rayon_threads)]

laspy_write_effects(c) ==
    IF ~c.env.has \/ ~c.env.preread THEN NoEffects
    ELSE LET loops == RunLoops(BackendLabel(c.backend), "write", OrZero(c.num_threads),
                               c.warmup, c.iterations, c.env)
         IN  [NoEffects EXCEPT
                 !.tmp_created = {"tmp_path"},
                 !.tmp_left = UnlinkFinally({"tmp_path"}, "tmp_path", loops),
                 !.environ = (IF c.num_threads # None THEN <<c.num_threads>> ELSE <<>>)
                             \o RestoreEnviron(c.old_rayon_threads)]

lazrs_read_effects(c) ==
    IF ~c.env.has THEN NoEffects
    ELSE [NoEffects EXCEPT !.swallowed =
             IF c.env.probe = "Exception" THEN {"Exception"}
             ELSE IF c.env.probe = "AttributeError"
                  THEN IF c.env.fallback = "Exception"
                       THEN {"AttributeError", "Exception"} ELSE {"AttributeError"}
                  ELSE {}]

pdal_read_effects(c) ==
    IF ~c.env.has THEN NoEffects
    ELSE LET loops == RunLoops("pdal", "read", 0, c.warmup, c.iterations, c.env)
         IN  [NoEffects EXCEPT !.tmp_created = {"out_path"},
                               !.tmp_left = UnlinkFinally({"out_path"}, "out_path", loops)]

pdal_write_effects(c) ==
    IF ~c.env.has THEN NoEffects
    ELSE LET loops == RunLoops("pdal", "write", 0, c.warmup, c.iterations, c.env)
         IN  [NoEffects EXCEPT !.tmp_created = {"out_path"},
                               !.tmp_left = UnlinkFinally({"out_path"}, "out_path", loops)]

\* ----------------------------------------------- specification: drivers

\* elapsed times a timed iteration may measure
DrvTimes == {FloatOne + 2, FloatOne + 3}

\* what a child may print besides the script's lines: nothing, a line without a
\* comma, a line of two fields that are no numbers, a line of three fields, a line
\* whose first field is no int
StrayOutputs ==
    { <<>>,
      << <<TextField>> >>,
      << <<TextField, TextField>> >>,
      << <<IntField(0), FloatField(FloatOne), TextField>> >>,
      << <<FloatField(FloatOne), FloatField(FloatOne)>> >> }

LoopEnvs(warmup, iterations) ==
    {QuietEnv(has, fail, times) :
        has \in BOOLEAN, fail \in 0..(warmup + iterations),
        times \in [1..iterations -> DrvTimes]}

DriverEnvs(driver, warmup, iterations) ==
    LET base == LoopEnvs(warmup, iterations)
    IN  CASE driver = "laspy_read" ->
               {[e EXCEPT !.stray = st] : e \in base, st \in StrayOutputs}
          [] driver = "laspy_write" ->
               {[e EXCEPT !.preread = pr] : e \in base, pr \in BOOLEAN}
          [] driver = "lazrs_read" ->
               {[e EXCEPT !.probe = pb, !.fallback = fb] :
                   e \in base, pb \in {"ok", "AttributeError", "Exception"},
                   fb \in {"ok", "Exception"}}
          [] OTHER -> base

Drivers == {"laspy_read", "laspy_write", "lazrs_read", "pdal_read", "pdal_write"}

DriverCalls ==
    UNION { { [driver |-> d, backend |-> b, warmup |-> w, iterations |-> n,
               num_threads |-> t, old_rayon_threads |-> o, env |-> e] :
                 b \in (IF d \in {"laspy_read", "laspy_write"} THEN LaspyBackends ELSE {"-"}),
                 t \in (IF d \in {"laspy_read", "laspy_write"} THEN {None, 1, 2} ELSE {None}),
                 o \in (IF d \in {"laspy_read", "laspy_write"} THEN {None, HostRayon}
                        ELSE {None}),
                 e \in DriverEnvs(d, w, n) } :
            d \in Drivers, w \in 0..MaxWarmup, n \in 1..MaxIterations }

InitDriver ==
    /\ MainIdle /\ AggIdle
    /\ drv_call \in DriverCalls
    /\ drv_ret = NoValue
    /\ drv_fx = NoValue

CallLaspyRead ==
    /\ drv_ret = NoValue /\ drv_call.driver = "laspy_read"
    /\ drv_ret' = benchmark_laspy_read(drv_call.backend, BackendLabel(drv_call.backend),
                                       drv_call.warmup, drv_call.iterations,
                                       drv_call.num_threads, drv_call.env)
    /\ drv_fx' = laspy_read_effects(drv_call)
    /\ UNCHANGED <<drv_call, mainVars, aggVars>>

CallLaspyWrite ==
    /\ drv_ret = NoValue /\ drv_call.driver = "laspy_write"
    /\ drv_ret' = benchmark_laspy_write(drv_call.backend, BackendLabel(drv_call.backend),
                                        drv_call.warmup, drv_call.iterations,
                                        drv_call.num_threads, drv_call.env)
    /\ drv_fx' = laspy_write_effects(drv_call)
    /\ UNCHANGED <<drv_call, mainVars, aggVars>>

CallLazrsRead ==
    /\ drv_ret = NoValue /\ drv_call.driver = "lazrs_read"
    /\ drv_ret' = benchmark_lazrs_read(drv_call.warmup, drv_call.iterations, drv_call.env)
    /\ drv_fx' = lazrs_read_effects(drv_call)
    /\ UNCHANGED <<drv_call, mainVars, aggVars>>

CallPdalRead ==
    /\ drv_ret = NoValue /\ drv_call.driver = "pdal_read"
    /\ drv_ret' = benchmark_pdal_read(drv_call.warmup, drv_call.iterations, drv_call.env)
    /\ drv_fx' = pdal_read_effects(drv_call)
    /\ UNCHANGED <<drv_call, mainVars, aggVars>>

CallPdalWrite ==
    /\ drv_ret = NoValue /\ drv_call.driver = "pdal_write"
    /\ drv_ret' = benchmark_pdal_write(drv_call.warmup, drv_call.iterations, drv_call.env)
    /\ drv_fx' = pdal_write_effects(drv_call)
    /\ UNCHANGED <<drv_call, mainVars, aggVars>>

NextDriver ==
    CallLaspyRead \/ CallLaspyWrite \/ CallLazrsRead \/ CallPdalRead \/ CallPdalWrite

SpecDriver == InitDriver /\ [][NextDriver]_vars

\* -------------------------------------------------------- claims: drivers

Called == drv_ret # NoValue

IsSubprocessCall(c) ==
    c.driver = "laspy_read" /\ c.backend = "LazrsParallel" /\ c.num_threads # None

\* the trial reads of benchmark_lazrs_read leave a read function to loop over
ProbePassed(env) ==
    env.probe = "ok" \/ (env.probe = "AttributeError" /\ env.fallback = "ok")

\* the tool is there, no invocation of the operation raises, and a child prints
\* nothing but the script's own lines
CleanCall(c) ==
    /\ c.env.has /\ c.env.preread /\ ProbePassed(c.env)
    /\ c.env.fail = 0 /\ c.env.stray = <<>>

\* C4: a driver called with iterations = N >= 1 and an operation that never fails
\* returns exactly N samples whose iteration fields are 0, 1, ..., N-1 in that
\* order, for every warmup count >= 0.
C4_ExactlyNSamplesInOrder ==
    (Called /\ CleanCall(drv_call)) =>
        /\ ~drv_ret.raised
        /\ Len(drv_ret.results) = drv_call.iterations
        /\ \A i \in 1..Len(drv_ret.results) : drv_ret.results[i].iteration = i - 1

C4_Witness ==
    /\ Called /\ CleanCall(drv_call)
    /\ drv_call.driver = "pdal_write"
    /\ drv_call.warmup = MaxWarmup /\ drv_call.iterations = MaxIterations
    /\ Len(drv_ret.results) = MaxIterations
    /\ drv_ret.results[MaxIterations].iteration = MaxIterations - 1

\* an untimed invocation of the operation, made before the timed loop, raises:
\* a trial read of benchmark_lazrs_read or a pass of a warmup loop
WarmupFailed(c) ==
    /\ c.env.has /\ c.env.preread /\ c.warmup >= 1
    /\ \/ ~ProbePassed(c.env)
       \/ (1 <= c.env.fail /\ c.env.fail <= c.warmup)

\* C5: a driver whose warmup invocation fails returns no samples and signals a
\* failure to its caller, an outcome other than the one it gives when its tool is
\* unavailable (an empty sample list without an error).
C5_WarmupFailureSignalled ==
    (Called /\ WarmupFailed(drv_call)) =>
        /\ drv_ret.raised
        /\ drv_ret.results = <<>>
        /\ drv_ret # Returned(<<>>)

WellFormedLine(line) ==
    Len(line) = 2 /\ line[1].kind = "int" /\ line[2].kind \in {"int", "float"}

ChildOf(c) == ChildScript(c.warmup, c.iterations, c.env)

\* C6: in the subprocess-isolated driver a non-zero child exit code, or any output
\* line that is not a well-formed 'iteration,time_s' pair, makes the call fail with
\* an error and return no samples.
C6_ChildViolationFails ==
    (/\ Called /\ IsSubprocessCall(drv_call) /\ drv_call.env.has
     /\ \/ ChildOf(drv_call).returncode # 0
        \/ \E i \in DOMAIN ChildOf(drv_call).stdout :
              ~WellFormedLine(ChildOf(drv_call).stdout[i]))
    => (drv_ret.raised /\ drv_ret.results = <<>>)

\* C11: every temporary output file a driver creates (benchmark_pdal_read,
\* benchmark_pdal_write, benchmark_laspy_write) no longer exists when the call
\* ends, whether it returns or raises during a warmup or a timed iteration.
C11_TempFilesRemoved ==
    Called => drv_fx.tmp_left = {}

C11_Witness ==
    /\ Called
    /\ drv_call.driver = "laspy_write"
    /\ drv_call.warmup >= 1 /\ drv_call.env.fail > drv_call.warmup
    /\ drv_ret.raised
    /\ drv_fx.tmp_created = {"tmp_path"}
    /\ drv_fx.tmp_left = {}

\* a call main() makes to measure the lazrs-parallel backend at a requested
\* thread count, which gets as far as its loops
MeasuresLazrsParallel(c) ==
    /\ c.driver \in {"laspy_read", "laspy_write"}
    /\ c.backend = "LazrsParallel" /\ c.num_threads # None
    /\ c.env.has /\ c.env.preread

\* C12: when the lazrs-parallel backend is measured at a requested thread count,
\* for read and for write alike, RAYON_NUM_THREADS is set in a freshly spawned
\* child process that runs the whole warmup+timed loop, and the environment of
\* the orchestrator's own process is never modified during the call.
C12_RayonSetInChildOnly ==
    (Called /\ MeasuresLazrsParallel(drv_call)) =>
        /\ drv_fx.child # NoValue
        /\ drv_fx.child = [rayon |-> drv_call.num_threads, warmup |-> drv_call.warmup,
                           iterations |-> drv_call.iterations]
        /\ \A i \in DOMAIN drv_fx.environ : drv_fx.environ[i] = drv_call.old_rayon_threads

\* C14: every failure a driver catches and downgrades to an empty result
\* produces a diagnostic message; none is dropped without a message.
C14_SwallowedFailureReported ==
    (Called /\ drv_fx.swallowed # {} /\ drv_ret = Returned(<<>>)) =>
        drv_fx.printed # {}


\* --------------------------------------------- specification: aggregate

AggKeys == {<<"laspp", "read", 1>>, <<"laspp", "read", 2>>}

AggTimes == {0, FloatOne + 2, FloatOne + 3}

AggSamples == {BenchResult(k[1], k[2], k[3], 0, t) : k \in AggKeys, t \in AggTimes}

AggLists == UNION {[1..n -> AggSamples] : n \in 0..MaxSamples}

\* the metadata main() holds when it aggregates: as it set it, or updated with what
\* the binary reported
AggMetadata ==
    {[adapter_ran |-> FALSE, metadata |-> InitialMetadata(size)] : size \in HostFileSizes}
    \cup {[adapter_ran |-> TRUE,
           metadata |-> Update(InitialMetadata(2 * Mega),
                               NativeDocument(<<>>, 2 * Mega).values)]}

Perms(n) == {p \in [1..n -> 1..n] : \A i, j \in 1..n : p[i] = p[j] => i = j}

InitAgg ==
    /\ MainIdle /\ DrvIdle
    /\ \E raw \in AggLists, m \in AggMetadata :
          agg_in = [raw |-> raw, perm |-> raw,
                    adapter_ran |-> m.adapter_ran, metadata |-> m.metadata]
    /\ agg_out = NoValue

\* the caller hands the same samples over in another order
AggPermute ==
    /\ agg_out = NoValue
    /\ agg_in.perm = agg_in.raw
    /\ \E p \in Perms(Len(agg_in.raw)) :
          /\ \E i \in DOMAIN p : p[i] # i
          /\ agg_in' = [agg_in EXCEPT !.perm = [i \in DOMAIN p |-> agg_in.raw[p[i]]]]
    /\ UNCHANGED <<agg_out, mainVars, drvVars>>

\* the aggregate step of main(), on the samples and on their permutation
AggCall ==
    /\ agg_out = NoValue
    /\ agg_out' = [summaries |-> Summarise(agg_in.raw, agg_in.metadata),
                   summaries_perm |-> Summarise(agg_in.perm, agg_in.metadata),
                   payload |-> Payload(Summarise(agg_in.raw, agg_in.metadata))]
    /\ UNCHANGED <<agg_in, mainVars, drvVars>>

NextAgg == AggPermute \/ AggCall

SpecAgg == InitAgg /\ [][NextAgg]_vars

\* ------------------------------------------------------ claims: aggregate


CountKey(raw, key) == Cardinality({i \in DOMAIN raw : KeyOf(raw[i]) = key})

SummaryKey(s) == <<s.tool, s.operation, s.threads>>

\* one Summary per distinct key of the input, each with the number of its samples
OnePerKey(raw, out) ==
    /\ {SummaryKey(out[i]) : i \in DOMAIN out} = {KeyOf(raw[i]) : i \in DOMAIN raw}
    /\ \A i, j \in DOMAIN out : SummaryKey(out[i]) = SummaryKey(out[j]) => i = j
    /\ \A i \in DOMAIN out : out[i].n = CountKey(raw, SummaryKey(out[i]))
    /\ (raw = <<>> => out = <<>>)

MeanWithinExtremes(out) ==
    \A i \in DOMAIN out : out[i].min_s <= out[i].mean_s /\ out[i].mean_s <= out[i].max_s

\* C8: aggregate returns exactly one Summary per distinct (tool, operation, threads)
\* key of its input, with n the number of the key's samples and
\* min_s <= mean_s <= max_s; an empty input gives an empty output.
C8_OnePerKeyMeanWithinExtremes ==
    agg_out # NoValue =>
        /\ OnePerKey(agg_in.raw, agg_out.summaries)
        /\ MeanWithinExtremes(agg_out.summaries)

\* C9: aggregate gives the same set of Summaries for a sample list and for every
\* permutation of it.
C9_OrderIndependent ==
    agg_out # NoValue => Range(agg_out.summaries) = Range(agg_out.summaries_perm)

\* C10: pts_per_s and mb_per_s are 0 whenever mean_s <= 0 or the numerator
\* (num_points, file_size_bytes) is 0, and computing them never divides by zero;
\* when the native adapter did not run, num_points stays 0 and pts_per_s is 0 for
\* every Summary.
C10_ThroughputGuarded ==
    agg_out # NoValue =>
        \A i \in DOMAIN agg_out.payload :
            LET s == agg_out.summaries[i]
                w == agg_out.payload[i]
            IN  /\ ~w.pts_per_s.error /\ ~w.mb_per_s.error
                /\ (s.mean_s <= 0 \/ s.num_points = 0) => w.pts_per_s.val = 0
                /\ (s.mean_s <= 0 \/ s.file_size_bytes = 0) => w.mb_per_s.val = 0
                /\ ~agg_in.adapter_ran => (s.num_points = 0 /\ w.pts_per_s.val = 0)

C10_Witness ==
    /\ agg_out # NoValue
    /\ \E i \in DOMAIN agg_out.payload :
          /\ agg_out.summaries[i].mean_s <= 0
          /\ agg_out.summaries[i].num_points > 0
          /\ agg_out.summaries[i].file_size_bytes > 0
          /\ agg_out.payload[i].pts_per_s = [error |-> FALSE, val |-> 0]
    /\ \E i \in DOMAIN agg_out.payload :
          /\ agg_out.summaries[i].mean_s > 0
          /\ agg_out.payload[i].pts_per_s.val > 0
          /\ agg_out.payload[i].mb_per_s.val > 0

====
